---- MODULE Spec2Model ----
(***************************************************************************)
(* Line reconstruction and page assembly of convert_pdf_to_text            *)
(* (src/pdf_to_json.py, and the identical method of DocumentProcessor in   *)
(* src/ProjectTest/pdf_to_json.py).                                        *)
(*                                                                         *)
(* Representation.                                                         *)
(*  - A Python str is a sequence of one-character strings.                 *)
(*  - A y position (a Python float) is a fixed-point integer counting      *)
(*    1/Scale of a page unit, so 500.3 is 5003 and the comparison          *)
(*    abs(y_pos - current_y) <= threshold is taken at that scale.          *)
(*  - A text matrix tm is a 6-tuple (tm[5] of the code is tm[6] here); a   *)
(*    falsy tm (None, empty) is <<>>.                                      *)
(*  - current_y is <<>> for None and <<y>> for the float y.                *)
(*  - An element of text_elements is the code's tuple (text, y) together   *)
(*    with a history field idx: the 1-based number of the visitor call     *)
(*    that produced it.  current_line holds elements (the code holds       *)
(*    their text), and an entry of lines is the joined string (text)       *)
(*    together with the history field elems, the elements joined into it.  *)
(***************************************************************************)
EXTENDS Integers, Sequences, FiniteSets, TLC

VARIABLES
    source,         \* pdf_reader.pages: per page, the runs the decoder hands to the visitor
    pc,             \* position in convert_pdf_to_text
    page_num,       \* loop variable of the page loop (0-based)
    run,            \* number of visitor calls made for the current page
    text_elements,  \* list of (text, y_position)
    k,              \* number of elements the grouping loop has consumed
    current_line,
    current_y,
    lines,
    all_pages_text,
    output,         \* content written to the text file
    page_lines      \* history: the lines list of every finished page

vars == <<source, pc, page_num, run, text_elements, k, current_line,
          current_y, lines, all_pages_text, output, page_lines>>

----------------------------------------------------------------------------
(* Bounds of the explored inputs *)

MaxRuns == 3
MaxPages == 3
MaxDocRuns == 1

----------------------------------------------------------------------------
(* Values *)

Scale == 10

threshold == 1

NoneY == <<>>

Whitespace == {" ", "\t", "\n", "\r"}

Abs(x) == IF x < 0 THEN -x ELSE x

TmAt(y) == <<1, 0, 0, 1, 0, y>>

Run(text, tm) == [text |-> text, tm |-> tm]

----------------------------------------------------------------------------
(* str.strip, str.join, str.format *)

RECURSIVE LStrip(_)
LStrip(s) ==
    IF s = <<>> THEN <<>>
    ELSE IF Head(s) \in Whitespace THEN LStrip(Tail(s)) ELSE s

RECURSIVE RStrip(_)
RStrip(s) ==
    IF s = <<>> THEN <<>>
    ELSE IF s[Len(s)] \in Whitespace THEN RStrip(SubSeq(s, 1, Len(s) - 1)) ELSE s

Strip(s) == RStrip(LStrip(s))

RECURSIVE Join(_, _)
Join(sep, ss) ==
    IF ss = <<>> THEN <<>>
    ELSE IF Len(ss) = 1 THEN ss[1]
    ELSE ss[1] \o sep \o Join(sep, Tail(ss))

Digit(d) == <<"0", "1", "2", "3", "4", "5", "6", "7", "8", "9">>[d + 1]

RECURSIVE FormatInt(_)
FormatInt(n) ==
    IF n < 10 THEN <<Digit(n)>> ELSE FormatInt(n \div 10) \o <<Digit(n % 10)>>

----------------------------------------------------------------------------
(* extract_lines_with_positions *)

YPosition(tm) == IF tm # <<>> THEN tm[6] ELSE 0

\* faulty variant: the visitor without its "if text.strip()" test
Visit_nofilter(elements, text, tm, idx) ==
    Append(elements, [text |-> Strip(text), y |-> YPosition(tm), idx |-> idx])

Visit(elements, text, tm, idx) ==
    IF Strip(text) # <<>>
    THEN Append(elements, [text |-> Strip(text), y |-> YPosition(tm), idx |-> idx])
    ELSE elements

----------------------------------------------------------------------------
(* text_elements.sort(key=lambda x: -x[1]): list.sort is stable, ascending *)
(* in the key                                                              *)

Key(e) == -e.y

RECURSIVE Insert(_, _)
Insert(s, e) ==
    IF s = <<>> THEN <<e>>
    ELSE IF Key(Head(s)) <= Key(e) THEN <<Head(s)>> \o Insert(Tail(s), e)
    ELSE <<e>> \o s

\* faulty variant: a sort that puts an element before its equals (not stable)
RECURSIVE InsertFirst(_, _)
InsertFirst(s, e) ==
    IF s = <<>> THEN <<e>>
    ELSE IF Key(Head(s)) < Key(e) THEN <<Head(s)>> \o InsertFirst(Tail(s), e)
    ELSE <<e>> \o s

RECURSIVE SortUnstable(_)
SortUnstable(s) ==
    IF s = <<>> THEN <<>>
    ELSE InsertFirst(SortUnstable(SubSeq(s, 1, Len(s) - 1)), s[Len(s)])

\* faulty variant: the sort left out
SortNone(s) == s

\* faulty variant: key x[1] instead of -x[1] (ascending y)
RECURSIVE InsertAsc(_, _)
InsertAsc(s, e) ==
    IF s = <<>> THEN <<e>>
    ELSE IF e.y >= Head(s).y THEN <<Head(s)>> \o InsertAsc(Tail(s), e)
    ELSE <<e>> \o s

RECURSIVE SortAsc(_)
SortAsc(s) ==
    IF s = <<>> THEN <<>>
    ELSE InsertAsc(SortAsc(SubSeq(s, 1, Len(s) - 1)), s[Len(s)])

RECURSIVE SortDesc(_)
SortDesc(s) ==
    IF s = <<>> THEN <<>>
    ELSE Insert(SortDesc(SubSeq(s, 1, Len(s) - 1)), s[Len(s)])

----------------------------------------------------------------------------
(* The grouping loop *)

\* faulty variant: < instead of <=
SameLine_strict(y_pos, cy) == Abs(y_pos - cy) < threshold * Scale

SameLine(y_pos, cy) == Abs(y_pos - cy) <= threshold * Scale

\* faulty variant: the anchor follows every fragment
NextAnchor_drift(cy, y_pos) == y_pos

NextAnchor(cy, y_pos) == IF SameLine(y_pos, cy) THEN cy ELSE y_pos

Texts(elems) == [i \in 1..Len(elems) |-> elems[i].text]

Line(elems) == [text |-> Join(<<" ">>, Texts(elems)), elems |-> elems]

Flush(ls, cl) == IF cl # <<>> THEN Append(ls, Line(cl)) ELSE ls

\* faulty variant: the last line is not added
FlushLast_skip(ls, cl) == ls

FlushLast(ls, cl) == Flush(ls, cl)

----------------------------------------------------------------------------
(* Page assembly *)

\* faulty variant: the separator numbered by the upcoming page
Separator_upcoming(n) ==
    <<"\n", "\n", "-", "-", "-", " ", "P", "a", "g", "e", " ">>
        \o FormatInt(n + 1) \o <<" ", "-", "-", "-", "\n", "\n">>

Separator(n) ==
    <<"\n", "\n", "-", "-", "-", " ", "P", "a", "g", "e", " ">>
        \o FormatInt(n) \o <<" ", "-", "-", "-", "\n", "\n">>

LineTexts(ls) == [i \in 1..Len(ls) |-> ls[i].text]

\* faulty variant: a separator after the last page too
PageText_always(ls, pn, n) == Join(<<"\n">>, LineTexts(ls)) \o Separator(pn + 1)

PageText(ls, pn, n) ==
    IF pn < n - 1
    THEN Join(<<"\n">>, LineTexts(ls)) \o Separator(pn + 1)
    ELSE Join(<<"\n">>, LineTexts(ls))

----------------------------------------------------------------------------
(* Inputs: the documents explored *)

RECURSIVE SeqsUpTo(_, _)
SeqsUpTo(S, n) ==
    IF n = 0 THEN {<<>>}
    ELSE LET shorter == SeqsUpTo(S, n - 1)
         IN shorter \cup {Append(s, x) : s \in {t \in shorter : Len(t) = n - 1}, x \in S}

BlankRun == Run(<<" ">>, <<>>)

RawRuns ==
    {BlankRun} \cup
    {Run(t, tm) : t \in {<<"A">>, <<" ", "B", "\n">>},
                  tm \in {<<>>, TmAt(10), TmAt(11), TmAt(22)}}

DocRuns == {BlankRun, Run(<<"A">>, <<>>)}

OnePageDocs == {<<p>> : p \in SeqsUpTo(RawRuns, MaxRuns)}

MultiPageDocs == SeqsUpTo(SeqsUpTo(DocRuns, MaxDocRuns), MaxPages)

ExTotal ==
    << << Run(<<"T", "o", "t", "a", "l", ":">>, TmAt(5000)),
          Run(<<"$", "4", "2", ".", "0", "0">>, TmAt(5003)),
          Run(<<"D", "a", "t", "e", ":">>, TmAt(4800)) >> >>

ExDrift ==
    << << Run(<<"a">>, TmAt(1000)), Run(<<"b">>, TmAt(994)),
          Run(<<"c">>, TmAt(989)), Run(<<"d">>, TmAt(983)) >> >>

ExPagesAB ==
    << << Run(<<"A">>, TmAt(7000)), Run(<<"B">>, TmAt(6900)) >>,
       << Run(<<"C">>, TmAt(7000)) >> >>

ExEmptyFirst == << <<>>, << Run(<<"X">>, TmAt(7000)) >> >>

ExampleDocs == {ExTotal, ExDrift, ExPagesAB, ExEmptyFirst}

Docs == OnePageDocs \cup MultiPageDocs \cup ExampleDocs

----------------------------------------------------------------------------
(* convert_pdf_to_text *)

Init ==
    /\ source \in Docs
    /\ pc = "loop"
    /\ page_num = 0
    /\ run = 0
    /\ text_elements = <<>>
    /\ k = 0
    /\ current_line = <<>>
    /\ current_y = NoneY
    /\ lines = <<>>
    /\ all_pages_text = <<>>
    /\ output = <<>>
    /\ page_lines = <<>>

\* line 58-62, 16: the next page; extract_lines_with_positions starts
BeginPage ==
    /\ pc = "loop"
    /\ page_num < Len(source)
    /\ text_elements' = <<>>
    /\ run' = 0
    /\ pc' = "extract"
    /\ UNCHANGED <<source, page_num, k, current_line, current_y, lines,
                   all_pages_text, output, page_lines>>

\* line 17-21: one call of the visitor, made by page.extract_text
visitor_body ==
    /\ pc = "extract"
    /\ run < Len(source[page_num + 1])
    /\ LET r == source[page_num + 1][run + 1]
       IN text_elements' = Visit(text_elements, r.text, r.tm, run + 1)
    /\ run' = run + 1
    /\ UNCHANGED <<source, pc, page_num, k, current_line, current_y, lines,
                   all_pages_text, output, page_lines>>

\* faulty variant: current_line and current_y survive from the previous page
SortAndReset_keep ==
    /\ pc = "extract"
    /\ run = Len(source[page_num + 1])
    /\ text_elements' = SortDesc(text_elements)
    /\ lines' = <<>>
    /\ k' = 0
    /\ pc' = "group"
    /\ UNCHANGED <<source, page_num, run, current_line, current_y,
                   all_pages_text, output, page_lines>>

\* line 24, 65-71: the elements are returned and sorted, the loop state reset
SortAndReset ==
    /\ pc = "extract"
    /\ run = Len(source[page_num + 1])
    /\ text_elements' = SortDesc(text_elements)
    /\ current_line' = <<>>
    /\ current_y' = NoneY
    /\ lines' = <<>>
    /\ k' = 0
    /\ pc' = "group"
    /\ UNCHANGED <<source, page_num, run, all_pages_text, output, page_lines>>

\* line 73-83: one iteration of the grouping loop
GroupStep ==
    /\ pc = "group"
    /\ k < Len(text_elements)
    /\ LET e == text_elements[k + 1]
           cy == IF current_y = NoneY THEN e.y ELSE current_y[1]
       IN /\ IF SameLine(e.y, cy)
             THEN /\ current_line' = Append(current_line, e)
                  /\ lines' = lines
             ELSE /\ lines' = Flush(lines, current_line)
                  /\ current_line' = <<e>>
          /\ current_y' = <<NextAnchor(cy, e.y)>>
    /\ k' = k + 1
    /\ UNCHANGED <<source, pc, page_num, run, text_elements, all_pages_text,
                   output, page_lines>>

\* line 85-96: the last line, the page text and its separator
FinishPage ==
    /\ pc = "group"
    /\ k = Len(text_elements)
    /\ lines' = FlushLast(lines, current_line)
    /\ all_pages_text' = Append(all_pages_text, PageText(lines', page_num, Len(source)))
    /\ page_lines' = Append(page_lines, LineTexts(lines'))
    /\ page_num' = page_num + 1
    /\ pc' = "loop"
    /\ UNCHANGED <<source, run, text_elements, k, current_line, current_y, output>>

\* line 99-100: the pages joined and written
WriteFile ==
    /\ pc = "loop"
    /\ page_num = Len(source)
    /\ output' = Join(<<"\n">>, all_pages_text)
    /\ pc' = "done"
    /\ UNCHANGED <<source, page_num, run, text_elements, k, current_line,
                   current_y, lines, all_pages_text, page_lines>>

Next ==
    \/ BeginPage
    \/ visitor_body
    \/ SortAndReset
    \/ GroupStep
    \/ FinishPage
    \/ WriteFile

Spec == Init /\ [][Next]_vars

----------------------------------------------------------------------------
(* Vocabulary of the properties *)

T == threshold * Scale

\* some page has been finished; lines, text_elements and current_line are its
PageDone == pc \in {"loop", "done"} /\ page_num > 0

\* the runs of a page that survive the visitor's filter, as elements, in
\* extraction order
RECURSIVE KeptFrom(_, _)
KeptFrom(page, i) ==
    IF i > Len(page) THEN <<>>
    ELSE IF Strip(page[i].text) # <<>>
         THEN <<[text |-> Strip(page[i].text),
                 y |-> IF page[i].tm = <<>> THEN 0 ELSE page[i].tm[6],
                 idx |-> i]>> \o KeptFrom(page, i + 1)
         ELSE KeptFrom(page, i + 1)

Kept(page) == KeptFrom(page, 1)

RECURSIVE Flatten(_)
Flatten(ls) == IF ls = <<>> THEN <<>> ELSE Head(ls).elems \o Flatten(Tail(ls))

Range(s) == {s[i] : i \in 1..Len(s)}

IsPrefix(s, t) == Len(s) <= Len(t) /\ SubSeq(t, 1, Len(s)) = s

\* "\n\n--- Page i ---\n\n", written out
PageMarker(i) ==
    <<"\n", "\n", "-", "-", "-", " ", "P", "a", "g", "e", " ",
      <<"1", "2", "3", "4", "5", "6", "7", "8", "9">>[i],
      " ", "-", "-", "-", "\n", "\n">>

NL == <<"\n">>

RECURSIVE PlainJoin(_)
PlainJoin(ls) ==
    IF ls = <<>> THEN <<>>
    ELSE IF Len(ls) = 1 THEN ls[1] ELSE ls[1] \o NL \o PlainJoin(Tail(ls))

\* descending y, and extraction order among equal y
Ordered(elems) ==
    \A i, j \in 1..Len(elems) :
        i < j => \/ elems[i].y > elems[j].y
                 \/ (elems[i].y = elems[j].y /\ elems[i].idx < elems[j].idx)

----------------------------------------------------------------------------
(* C1: every fragment that passes the filter is placed in exactly one line  *)
(* (none lost, none duplicated), in sort order: while grouping, the lines   *)
(* emitted so far followed by the current line are exactly the elements     *)
(* consumed so far; for a finished page the fragments of its lines are the  *)
(* kept fragments of the page, each once, there are at most as many lines   *)
(* as fragments, and at least one line when there is a fragment.            *)
C1_EveryFragmentInOneLine ==
    /\ pc = "group" =>
          Flatten(lines) \o current_line = SubSeq(text_elements, 1, k)
    /\ PageDone =>
          LET kept == Kept(source[page_num])
              flat == Flatten(lines)
          IN /\ Len(flat) = Len(kept)
             /\ \A i \in 1..Len(kept) :
                   Cardinality({j \in 1..Len(flat) : flat[j] = kept[i]}) = 1
             /\ flat = text_elements
             /\ Len(lines) <= Len(kept)
             /\ (kept # <<>> => Len(lines) >= 1)

C1_Witness ==
    /\ PageDone
    /\ Len(lines) = 2
    /\ Len(Flatten(lines)) = 3
    /\ Len(source[page_num]) = 3

----------------------------------------------------------------------------
(* C2, as stated: when every fragment of a page is within the threshold of  *)
(* the first fragment, there is a single line holding the fragments in      *)
(* extraction order; and the Total/$42.00/Date page gives "Total: $42.00"   *)
(* then "Date:".                                                            *)
C2_AsStated ==
    /\ (/\ PageDone
        /\ Kept(source[page_num]) # <<>>
        /\ \A e \in Range(Kept(source[page_num])) :
              Abs(e.y - Kept(source[page_num])[1].y) <= T)
       => /\ Len(lines) = 1
          /\ lines[1].elems = Kept(source[page_num])
    /\ (source = ExTotal /\ pc = "done")
       => LineTexts(lines) =
             << <<"T", "o", "t", "a", "l", ":", " ", "$", "4", "2", ".", "0", "0">>,
                <<"D", "a", "t", "e", ":">> >>

(* C2, amended: when every fragment of a page is within the threshold of    *)
(* the fragment with the highest y (the first in sort order), there is a    *)
(* single line holding all the fragments by descending y, fragments of      *)
(* equal y in extraction order; and the Total/$42.00/Date page gives        *)
(* "$42.00 Total:" then "Date:".                                            *)
C2_SingleLineByDescendingY ==
    /\ (/\ PageDone
        /\ Kept(source[page_num]) # <<>>
        /\ \A e, f \in Range(Kept(source[page_num])) : Abs(e.y - f.y) <= T)
       => /\ Len(lines) = 1
          /\ Range(lines[1].elems) = Range(Kept(source[page_num]))
          /\ Len(lines[1].elems) = Len(Kept(source[page_num]))
          /\ Ordered(lines[1].elems)
          /\ lines[1].text = Join(<<" ">>, Texts(lines[1].elems))
    /\ (source = ExTotal /\ pc = "done")
       => LineTexts(lines) =
             << <<"$", "4", "2", ".", "0", "0", " ", "T", "o", "t", "a", "l", ":">>,
                <<"D", "a", "t", "e", ":">> >>

C2_Witness == source = ExTotal /\ pc = "done" /\ Len(lines) = 2

----------------------------------------------------------------------------
(* C3, as stated: the written text of [["A","B"],["C"]] is                  *)
(* "A\nB\n\n--- Page 1 ---\n\nC", that of [[],["X"]] is                     *)
(* "\n\n--- Page 1 ---\n\nX": between two pages there is the separator and  *)
(* no further newline.                                                      *)
RECURSIVE Assembled(_, _, _)
Assembled(pls, i, between) ==
    IF i > Len(pls) THEN <<>>
    ELSE PlainJoin(pls[i])
         \o (IF i < Len(pls) THEN PageMarker(i) \o between ELSE <<>>)
         \o Assembled(pls, i + 1, between)

C3_AsStated ==
    pc = "done" =>
       /\ output = Assembled(page_lines, 1, <<>>)
       /\ source = ExPagesAB =>
             output = <<"A", "\n", "B">> \o PageMarker(1) \o <<"C">>
       /\ source = ExEmptyFirst => output = PageMarker(1) \o <<"X">>

(* C3, amended: the written text of [["A","B"],["C"]] is                    *)
(* "A\nB\n\n--- Page 1 ---\n\n\nC", that of [[],["X"]] is                   *)
(* "\n\n--- Page 1 ---\n\n\nX": between two pages there is the separator    *)
(* followed by the one newline that joins the page texts.                   *)
C3_SeparatorThenNewline ==
    pc = "done" =>
       /\ output = Assembled(page_lines, 1, NL)
       /\ source = ExPagesAB =>
             output = <<"A", "\n", "B">> \o PageMarker(1) \o <<"\n", "C">>
       /\ source = ExEmptyFirst => output = PageMarker(1) \o <<"\n", "X">>

C3_Witness == pc = "done" /\ source = ExPagesAB /\ Len(output) > 3

----------------------------------------------------------------------------
(* C4: the text of the page at 0-based position i ends with the separator   *)
(* numbered i+1 exactly when i < N-1, whether or not the page has lines;    *)
(* the text of the last page is its lines alone.                            *)
C4_SeparatorByPosition ==
    /\ Len(all_pages_text) = Len(page_lines)
    /\ Len(all_pages_text) = page_num
    /\ \A i \in 0..(Len(all_pages_text) - 1) :
          all_pages_text[i + 1] =
             IF i < Len(source) - 1
             THEN PlainJoin(page_lines[i + 1]) \o PageMarker(i + 1)
             ELSE PlainJoin(page_lines[i + 1])

C4_Witness ==
    /\ pc = "done"
    /\ Len(source) = 3
    /\ page_lines[2] = <<>>
    /\ page_lines[3] # <<>>
    /\ all_pages_text[2] = PageMarker(2)

----------------------------------------------------------------------------
(* C5: the anchor (y of the first fragment) of every emitted line exceeds   *)
(* the anchor of the next line, and of the line being built, by more than   *)
(* the threshold; and a line once appended stays: lines changes only by an  *)
(* append at its end, until the next page starts a new list, and the        *)
(* finished pages' texts only grow by appends too.                          *)
C5_AnchorsDescend ==
    /\ \A i \in 1..(Len(lines) - 1) :
          lines[i].elems[1].y - lines[i + 1].elems[1].y > T
    /\ (pc = "group" /\ lines # <<>> /\ current_line # <<>>) =>
          lines[Len(lines)].elems[1].y - current_line[1].y > T

C5_LinesOnlyAppended ==
    /\ \/ IsPrefix(lines, lines') /\ Len(lines') <= Len(lines) + 1
       \/ pc = "extract" /\ pc' = "group" /\ lines' = <<>>
    /\ IsPrefix(all_pages_text, all_pages_text')
    /\ IsPrefix(page_lines, page_lines')

C5_TopToBottom == []C5_AnchorsDescend /\ [][C5_LinesOnlyAppended]_vars

C5_Witness ==
    /\ PageDone
    /\ Len(lines) = 3
    /\ text_elements # Kept(source[page_num])

----------------------------------------------------------------------------
----------------------------------------------------------------------------
(* C7: the anchor current_y is the y of the first fragment of the line      *)
(* being built, every fragment of that line and of every emitted line is    *)
(* within the threshold of the line's first fragment, and current_y changes *)
(* only in a step that starts a line (or resets it to None for a new page), *)
(* never in a step that appends to a line already begun; the page           *)
(* y = [100, 99.4, 98.9, 98.3] gives the lines {100, 99.4} and {98.9, 98.3}.*)
C7_AnchorIsFirst ==
    /\ (pc = "group" /\ current_line # <<>>) =>
          /\ current_y = <<current_line[1].y>>
          /\ \A e \in Range(current_line) : Abs(e.y - current_line[1].y) <= T
    /\ \A i \in 1..Len(lines) :
          \A e \in Range(lines[i].elems) : Abs(e.y - lines[i].elems[1].y) <= T
    /\ (source = ExDrift /\ pc = "done") =>
          /\ Len(lines) = 2
          /\ [i \in 1..2 |-> lines[1].elems[i].y] = <<1000, 994>>
          /\ [i \in 1..2 |-> lines[2].elems[i].y] = <<989, 983>>
          /\ LineTexts(lines) = << <<"a", " ", "b">>, <<"c", " ", "d">> >>

C7_AnchorStep ==
    current_y' # current_y =>
       \/ current_y' = NoneY /\ current_line' = <<>>
       \/ Len(current_line') = 1 /\ current_y' = <<current_line'[1].y>>

C7_NoAnchorDrift == []C7_AnchorIsFirst /\ [][C7_AnchorStep]_vars

C7_Witness == source = ExDrift /\ pc = "done" /\ Len(lines) = 2

----------------------------------------------------------------------------
(* C8: within every line, emitted or being built, the fragments are in      *)
(* non-increasing y, and fragments of equal y are in extraction order.      *)
C8_StableDescending ==
    /\ \A i \in 1..Len(lines) : Ordered(lines[i].elems)
    /\ pc = "group" => Ordered(current_line)
    /\ pc \in {"group", "loop", "done"} => Ordered(text_elements)

C8_Witness ==
    /\ PageDone
    /\ Len(lines) = 1
    /\ Len(lines[1].elems) = 3
    /\ lines[1].elems[1].y = lines[1].elems[2].y
    /\ lines[1].elems[1].text # lines[1].elems[2].text
    /\ lines[1].elems[3].idx = 1

----------------------------------------------------------------------------
(* C9: a run whose stripped text is empty is never an element and never in  *)
(* a line; no line is empty; a page none of whose runs has text finishes    *)
(* with an empty list of lines and an empty page text (before its           *)
(* separator).                                                              *)
C9_BlankRunsDiscarded ==
    /\ pc \in {"extract", "group"} =>
          \A e \in Range(text_elements) :
             /\ e.text # <<>>
             /\ Strip(source[page_num + 1][e.idx].text) = e.text
    /\ pc = "extract" =>
          Len(text_elements) =
             Cardinality({i \in 1..run : Strip(source[page_num + 1][i].text) # <<>>})
    /\ \A i \in 1..Len(lines) :
          /\ lines[i].text # <<>>
          /\ lines[i].elems # <<>>
          /\ \A e \in Range(lines[i].elems) : e.text # <<>>
    /\ (PageDone /\ Kept(source[page_num]) = <<>>) =>
          /\ lines = <<>>
          /\ page_lines[page_num] = <<>>
          /\ all_pages_text[page_num] \in {<<>>, PageMarker(page_num)}

C9_Witness ==
    /\ PageDone
    /\ Len(source[page_num]) >= 1
    /\ Kept(source[page_num]) = <<>>
    /\ lines = <<>>

----------------------------------------------------------------------------
====
